---- MODULE Spec2Model ----
(***************************************************************************)
(* Model of the PVC autoscaler's reconcile loop (cmd/reconcile.go).        *)
(*                                                                         *)
(* Byte quantities are counted in MiB (2^20 bytes), so that 1<<30 bytes is *)
(* 1024 units and a percentage of a GiB-aligned capacity is never 0, as in *)
(* the program.  All capacities of the model stay far below 2^53 bytes,    *)
(* the range in which the float64 conversion of line 140 is exact.         *)
(***************************************************************************)
EXTENDS Integers, Sequences, FiniteSets, TLC

VARIABLES
    items,         \* pvcl.Items: the claims listed by getAnnotatedPVCs, in order
    pvcs,          \* the PersistentVolumeClaim objects held by the API server
    decision,      \* per claim: what the last reconcile call observed, logged and wrote
    returned,      \* what the last reconcile call returned: "nil", "error", "panic"
    cycleLog,      \* the log lines of the last call that belong to no claim
    crashed,       \* the process died in a panic
    resizeIssued,  \* history: reconcile has successfully updated the claim
    pvcl,          \* the claim objects as the last call listed them, line 18
    answers        \* what the environment answered in the last call, per claim

vars == <<items, pvcs, decision, returned, cycleLog, crashed, resizeIssued,
          pvcl, answers>>

----------------------------------------------------------------------------
\* Quantities

\* 1<<30 bytes, in MiB
GiB == 1024

\* The storage system grows a claim to at most MaxGiB GiB.
MaxGiB == 2

AllPVCs == {"p1", "p2"}

\* An annotation value: "80%", "2Gi", "abc", or no annotation.
Absent == [kind |-> "absent", n |-> 0]
Malformed == [kind |-> "bad", n |-> 0]
Pct(n) == [kind |-> "pct", n |-> n]
Qty(n) == [kind |-> "qty", n |-> n]

DefaultThreshold == Pct(80)
DefaultIncrease == Pct(20)

\* A string is a sequence of characters.
NoString == [exists |-> FALSE, s |-> <<>>]
Str(s) == [exists |-> TRUE, s |-> s]

NoCapacity == [exists |-> FALSE, value |-> 0]
Capacity(v) == [exists |-> TRUE, value |-> v]

----------------------------------------------------------------------------
\* strconv.ParseInt(s, 10, 64) and strconv.FormatInt(n, 10)

Digits == <<"0", "1", "2", "3", "4", "5", "6", "7", "8", "9">>

IsDigit(ch) == \E d \in 1..10 : Digits[d] = ch

DigitValue(ch) == (CHOOSE d \in 1..10 : Digits[d] = ch) - 1

RECURSIVE ParseUint(_, _)
ParseUint(s, acc) ==
    IF s = <<>> THEN [err |-> FALSE, value |-> acc]
    ELSE IF ~IsDigit(Head(s)) THEN [err |-> TRUE, value |-> 0]
    ELSE ParseUint(Tail(s), acc * 10 + DigitValue(Head(s)))

\* the error of ParseInt dropped: an unparsable string counts as 0
ParseIntIgnoringErr(s) == [err |-> FALSE, value |-> 0]

ParseInt(s) ==
    IF s = <<>> THEN [err |-> TRUE, value |-> 0]
    ELSE IF Head(s) \in {"+", "-"}
         THEN IF Tail(s) = <<>> THEN [err |-> TRUE, value |-> 0]
              ELSE LET u == ParseUint(Tail(s), 0)
                   IN  IF u.err THEN u
                       ELSE [err |-> FALSE,
                             value |-> IF Head(s) = "-" THEN 0 - u.value ELSE u.value]
         ELSE ParseUint(s, 0)

RECURSIVE FormatUint(_)
FormatUint(n) ==
    IF n < 10 THEN <<Digits[n + 1]>>
    ELSE FormatUint(n \div 10) \o <<Digits[(n % 10) + 1]>>

FormatInt(n) == IF n < 0 THEN <<"-">> \o FormatUint(0 - n) ELSE FormatUint(n)

----------------------------------------------------------------------------
\* Helpers of the package that reconcile calls

\* convertPercentageToBytes(value, capacity, defaultValue): a percentage of
\* the reference capacity, or an absolute quantity; the default when the
\* annotation is absent; an error for anything else.
convertPercentageToBytes(value, capacity, defaultValue) ==
    LET v == IF value.kind = "absent" THEN defaultValue ELSE value
    IN  IF v.kind = "pct" /\ v.n >= 1 /\ v.n <= 100
            THEN [err |-> FALSE, bytes |-> (v.n * capacity) \div 100]
        ELSE IF v.kind = "qty" /\ v.n > 0
            THEN [err |-> FALSE, bytes |-> v.n]
        ELSE [err |-> TRUE, bytes |-> 0]

\* getPVCStorageCeiling(pvc): the ceiling annotation as a quantity; no
\* annotation means no upper bound.
NoCeiling == [unbounded |-> TRUE, value |-> 0]
getPVCStorageCeiling(pvc) ==
    IF pvc.ceiling.kind = "absent" THEN [err |-> FALSE, ceiling |-> NoCeiling]
    ELSE IF pvc.ceiling.kind = "qty" /\ pvc.ceiling.n > 0
        THEN [err |-> FALSE,
              ceiling |-> [unbounded |-> FALSE, value |-> pvc.ceiling.n]]
    ELSE [err |-> TRUE, ceiling |-> NoCeiling]

\* resource.Quantity.Cmp against the ceiling: -1, 0 or 1
Cmp(value, ceiling) ==
    IF ceiling.unbounded \/ value < ceiling.value THEN 0 - 1
    ELSE IF value = ceiling.value THEN 0
    ELSE 1

----------------------------------------------------------------------------
\* What one reconcile call observed, logged and wrote for one claim

NoStorageClass == [err |-> FALSE, isExpandable |-> FALSE]

NoMetrics == [found |-> FALSE, VolumeCapacityBytes |-> 0, VolumeUsedBytes |-> 0]

\* What the environment answers for one claim in one cycle
Answers(storageClass, resizable, metrics, updateErr) ==
    [storageClass |-> storageClass, resizable |-> resizable,
     metrics |-> metrics, updateErr |-> updateErr]

\* A claim that is not in the list
Unlisted ==
    [hasStorageClassName |-> TRUE, annotationsNil |-> FALSE, requestsNil |-> FALSE,
     threshold |-> Absent, increase |-> Absent,
     ceiling |-> Absent, previous_capacity |-> NoString,
     capacity |-> NoCapacity, request |-> GiB]

Idle ==
    [processed |-> FALSE,              \* the loop body ran for the claim
     panicked |-> FALSE,               \* the loop body panicked
     log |-> <<>>,                     \* the log lines, in order
     evaluated |-> <<>>,               \* the lookups and computations, in order
     pvc |-> Unlisted,                 \* the claim object as listed, line 31
     in |-> Answers(NoStorageClass, FALSE, NoMetrics, FALSE),
     pvcCurrentCapacityBytes |-> 0,    \* line 76
     currentUsedBytes |-> 0,           \* line 135
     threshold |-> 0,                  \* line 78
     capacity |-> 0,                   \* line 87
     increase |-> 0,                   \* line 97
     previousCapacityExist |-> FALSE,  \* line 106
     previousCapacityErr |-> FALSE,    \* line 108
     parsedPreviousCapacity |-> 0,     \* line 108
     ceiling |-> NoCeiling,            \* line 119
     updateCalled |-> FALSE,           \* line 173 was reached
     updateErr |-> FALSE,              \* the Update call returned an error
     newStorageBytes |-> 0,            \* line 140, before the clamp
     newStorage |-> 0,                 \* the request written, line 168
     marker |-> NoString,              \* the annotation written, line 170
     pendingBefore |-> FALSE]          \* an issued resize was still propagating

Logged(d, msg) == [d EXCEPT !.log = Append(@, msg)]

Evaluated(d, what) == [d EXCEPT !.evaluated = Append(@, what)]

\* `continue`: the claim object is left as it was
Continue(pvc, d, msg) == [obj |-> pvc, d |-> Logged(d, msg)]

----------------------------------------------------------------------------
\* The tests and computations of the loop body

\* line 113
StillWaitingNever(parsedPreviousCapacity, pvcCurrentCapacityBytes) == FALSE
StillWaiting(parsedPreviousCapacity, pvcCurrentCapacityBytes) ==
    parsedPreviousCapacity = pvcCurrentCapacityBytes

\* line 46
NotExpandableIgnored(storageClass) == FALSE
NotExpandable(storageClass) == ~storageClass.isExpandable

\* line 127
LimitReachedStrict(capacity, ceiling) == Cmp(capacity, ceiling) > 0
LimitReachedIgnored(capacity, ceiling) == FALSE
LimitReached(capacity, ceiling) == Cmp(capacity, ceiling) >= 0

\* line 136
UsageBiggerThanThreshold(currentUsedBytes, threshold) ==
    currentUsedBytes >= threshold

\* math.Ceil(float64(x) / (1<<30))
CeilGiB(x) == IF x % GiB = 0 THEN x \div GiB ELSE (x \div GiB) + 1

\* line 140
NewStorageBytesFloor(capacity, increase) == ((capacity + increase) \div GiB) * GiB
NewStorageBytes(capacity, increase) == CeilGiB(capacity + increase) * GiB

\* lines 141-144
ClampMissing(newStorageBytes, ceiling) == newStorageBytes
ClampToCeiling(newStorageBytes, ceiling) ==
    IF Cmp(newStorageBytes, ceiling) > 0 THEN ceiling.value ELSE newStorageBytes

\* lines 168-170: the claim object as updatePVCWithNewStorageSize sends it
updatePVCWritesPolicy(pvcToResize, capacityBytes, newStorageBytes) ==
    [pvcToResize EXCEPT !.request = newStorageBytes,
                        !.previous_capacity = Str(FormatInt(capacityBytes)),
                        !.threshold = DefaultThreshold,
                        !.increase = DefaultIncrease]
updatePVCWritesTarget(pvcToResize, capacityBytes, newStorageBytes) ==
    [pvcToResize EXCEPT !.request = newStorageBytes,
                        !.previous_capacity = Str(FormatInt(newStorageBytes))]
updatePVCWithNewStorageSize(pvcToResize, capacityBytes, newStorageBytes) ==
    [pvcToResize EXCEPT !.request = newStorageBytes,
                        !.previous_capacity = Str(FormatInt(capacityBytes))]

----------------------------------------------------------------------------
\* The loop body of reconcile for one claim (lines 31-160).  `in` holds what
\* the environment answers in this cycle: the storage class lookup, the
\* resizable predicate, the claim's entry of the fetched metrics and the
\* outcome of the Update call.  The result is the claim object as the API
\* server holds it afterwards and the record of what happened.

\* lines 135-159
\* line 173: the stored object after the Update call; a call that returns an
\* error stores nothing
UpdateStoresOnError(pvc, sent, err) == sent

Update(pvc, sent, err) == IF err THEN pvc ELSE sent

growth(pvc, in, d) ==
    LET d1 == Evaluated([d EXCEPT !.currentUsedBytes = in.metrics.VolumeUsedBytes],
                        "currentUsedBytes >= threshold")
    IN  IF ~UsageBiggerThanThreshold(in.metrics.VolumeUsedBytes, d.threshold)
        THEN [obj |-> pvc, d |-> d1]
        ELSE
        LET newStorageBytes == NewStorageBytes(d.capacity, d.increase)
            newStorage == ClampToCeiling(newStorageBytes, d.ceiling)
            d1a == [Evaluated(d1, "newStorageBytes")
                       EXCEPT !.newStorageBytes = newStorageBytes,
                              !.log = Append(@, "pvc usage bigger than threshold")]
            sent == updatePVCWithNewStorageSize(pvc, d.pvcCurrentCapacityBytes, newStorage)
            d2 == [Evaluated(d1a, "Update")
                       EXCEPT !.newStorage = sent.request,
                              !.marker = sent.previous_capacity,
                              !.updateCalled = TRUE,
                              !.updateErr = in.updateErr,
                              !.log = Append(@,
                                  "PVCAutoscalerPreviousCapacityAnnotation annotation written")]
        IN  IF pvc.requestsNil \/ pvc.annotationsNil
            \* lines 168 and 170 assign to an entry of a nil map
            THEN [obj |-> pvc, d |-> [d1a EXCEPT !.panicked = TRUE]]
            ELSE IF in.updateErr
            THEN [obj |-> Update(pvc, sent, in.updateErr),
                  d |-> Logged(Logged(d2, "failed to resize pvc"), "pvc resized")]
            ELSE [obj |-> Update(pvc, sent, in.updateErr),
                  d |-> Logged(Logged(d2, "update function called and returned no error"),
                               "pvc resized")]

\* lines 106-133
guards(pvc, in, d) ==
    LET previousCapacity == pvc.previous_capacity
        parsed == ParseInt(previousCapacity.s)
        d1 == Evaluated([d EXCEPT !.previousCapacityExist = previousCapacity.exists,
                                  !.previousCapacityErr = previousCapacity.exists /\ parsed.err,
                                  !.parsedPreviousCapacity =
                                      IF previousCapacity.exists THEN parsed.value ELSE 0],
                        "previous_capacity")
    IN  IF previousCapacity.exists /\ parsed.err
            THEN Continue(pvc, d1, "failed to parse 'previous_capacity' annotation")
        ELSE IF previousCapacity.exists
                /\ StillWaiting(parsed.value, d.pvcCurrentCapacityBytes)
            THEN Continue(pvc, d1, "pvc is still waiting to accept the resize")
        ELSE
        LET c == getPVCStorageCeiling(pvc)
            d2 == Evaluated([d1 EXCEPT !.ceiling = c.ceiling], "getPVCStorageCeiling")
        IN  IF c.err THEN Continue(pvc, d2, "failed to fetch storage ceiling")
            ELSE IF LimitReached(d.capacity, c.ceiling)
                THEN Continue(pvc, d2, "volume storage limit reached")
            ELSE growth(pvc, in, d2)

\* lines 76-104
policy(pvc, in, d) ==
    LET pvcCurrentCapacityBytes == in.metrics.VolumeCapacityBytes
        threshold == convertPercentageToBytes(pvc.threshold, pvcCurrentCapacityBytes,
                                              DefaultThreshold)
        d1 == Evaluated([d EXCEPT !.pvcCurrentCapacityBytes = pvcCurrentCapacityBytes,
                                  !.threshold = threshold.bytes],
                        "convertPercentageToBytes(threshold)")
    IN  IF threshold.err
            THEN Continue(pvc, d1, "failed to convert threshold annotation")
        ELSE
        LET d2 == Evaluated(d1, "Status.Capacity")
        IN  IF ~pvc.capacity.exists
                THEN Continue(pvc, d2, "skip pvc because its capacity is not set yet")
            ELSE IF pvc.capacity.value = 0
                THEN Continue(pvc, [d2 EXCEPT !.capacity = 0],
                              "skip pvc because its capacity is zero")
            ELSE
            LET increase == convertPercentageToBytes(pvc.increase, pvc.capacity.value,
                                                     DefaultIncrease)
                d3 == Evaluated([d2 EXCEPT !.capacity = pvc.capacity.value,
                                           !.increase = increase.bytes],
                                "convertPercentageToBytes(increase)")
            IN  IF increase.err
                    THEN Continue(pvc, d3, "failed to convert increase annotation")
                ELSE guards(pvc, in, d3)

\* lines 32-74
reconcilePVC(pvc, in, pending) ==
    LET d0 == [Idle EXCEPT !.processed = TRUE,
                           !.log = <<"processing pvc">>,
                           !.pvc = pvc,
                           !.in = in,
                           !.pendingBefore = pending]
    IN  IF ~pvc.hasStorageClassName
            \* line 36 dereferences a nil pointer
            THEN [obj |-> pvc, d |-> [d0 EXCEPT !.panicked = TRUE]]
        ELSE
        LET d1 == Evaluated(d0, "isStorageClassExpandable")
        IN  IF in.storageClass.err
                THEN Continue(pvc, d1, "failed getting StorageClass")
            ELSE IF NotExpandable(in.storageClass)
                THEN Continue(pvc, d1, "the StorageClass does not allow volume expansion")
            ELSE
            LET d2 == Evaluated(Logged(d1, "storageclass allows volume expansion"),
                                "isPVCResizable")
            IN  IF ~in.resizable
                    THEN Continue(pvc, d2,
                             "the PersistentVolumeClaim %s is not resizable: %v")
                ELSE
                LET d3 == Evaluated(Logged(d2, "pvc meets the resizing conditions"),
                                    "pvcsMetrics[namespacedName]")
                IN  IF ~in.metrics.found
                        THEN Continue(pvc, d3, "could not fetch the metrics for pvc")
                    ELSE policy(pvc, in, Logged(d3, "metrics for pvc received"))

----------------------------------------------------------------------------
\* What the environment can answer in one cycle

Range(seq) == {seq[i] : i \in 1..Len(seq)}

\* isStorageClassExpandable: (false, err), (false, nil), (true, nil)
StorageClassResults ==
    {[err |-> TRUE, isExpandable |-> FALSE],
     [err |-> FALSE, isExpandable |-> FALSE],
     [err |-> FALSE, isExpandable |-> TRUE]}

\* The capacity the metrics can report for a claim: one GiB, the allocated
\* capacity, or the requested one (the file system grows before the status).
ReportedCapacities(pvc) ==
    {GiB} \cup (IF pvc.requestsNil THEN {} ELSE {pvc.request})
          \cup (IF pvc.capacity.exists /\ pvc.capacity.value > 0
                  THEN {pvc.capacity.value} ELSE {})

\* pvcsMetrics[namespacedName]: no entry, or capacity and used bytes
MetricsEntries(pvc) ==
    {NoMetrics}
        \cup UNION {{[found |-> TRUE, VolumeCapacityBytes |-> c, VolumeUsedBytes |-> u] :
                    u \in {0, c \div 2, c}} : c \in ReportedCapacities(pvc)}

\* The answers of one cycle for one claim.  An answer that the loop body
\* cannot reach (the metrics of a claim whose storage class lookup failed)
\* is not varied.
ClaimInputs(pvc) ==
    {Answers(sc, FALSE, NoMetrics, FALSE) : sc \in StorageClassResults}
    \cup {Answers([err |-> FALSE, isExpandable |-> TRUE], TRUE, m, e) :
            m \in MetricsEntries(pvc), e \in BOOLEAN}

CycleInputs ==
    {ins \in [Range(items) -> UNION {ClaimInputs(pvcs[c]) : c \in Range(items)}] :
        \A c \in Range(items) : ins[c] \in ClaimInputs(pvcs[c])}

\* An issued resize is still propagating: the allocated capacity has not
\* reached the requested one.
Pending(c) ==
    /\ resizeIssued[c]
    /\ (~pvcs[c].capacity.exists \/ pvcs[c].capacity.value < pvcs[c].request)

----------------------------------------------------------------------------
\* reconcile (lines 17-163)

\* lines 31-160: the claims in list order; a panic ends the loop
RECURSIVE processItemsUntilFailure(_, _, _, _)
processItemsUntilFailure(list, i, ins, acc) ==
    IF i > Len(list) \/ acc.crashed
          \/ (i > 1 /\ ~acc.decision[list[i - 1]].updateCalled) THEN acc
    ELSE LET c == list[i]
             r == reconcilePVC(acc.pvcs[c], ins[c], Pending(c))
         IN  processItemsUntilFailure(list, i + 1, ins,
                 [pvcs |-> [acc.pvcs EXCEPT ![c] = r.obj],
                  decision |-> [acc.decision EXCEPT ![c] = r.d],
                  crashed |-> r.d.panicked])

RECURSIVE processItems(_, _, _, _)
processItems(list, i, ins, acc) ==
    IF i > Len(list) \/ acc.crashed THEN acc
    ELSE LET c == list[i]
             r == reconcilePVC(acc.pvcs[c], ins[c], Pending(c))
         IN  processItems(list, i + 1, ins,
                 [pvcs |-> [acc.pvcs EXCEPT ![c] = r.obj],
                  decision |-> [acc.decision EXCEPT ![c] = r.d],
                  crashed |-> r.d.panicked])

NoDecisions == [c \in AllPVCs |-> Idle]

NoAnswers == [c \in AllPVCs |-> Answers(NoStorageClass, FALSE, NoMetrics, FALSE)]

\* lines 18-21: listing the claims fails
ReconcileListError ==
    /\ returned' = "error"
    /\ cycleLog' = <<>>
    /\ decision' = NoDecisions
    /\ answers' = NoAnswers
    /\ UNCHANGED <<items, pvcs, crashed, resizeIssued, pvcl>>

\* lines 24-28: fetching the metrics fails
ReconcileFetchError ==
    /\ returned' = "nil"
    /\ cycleLog' = <<"fetched annotated pvcs",
                     "could not fetch the PersistentVolumeClaims metrics">>
    /\ decision' = NoDecisions
    /\ pvcl' = pvcs
    /\ answers' = NoAnswers
    /\ UNCHANGED <<items, pvcs, crashed, resizeIssued>>

\* lines 29-162
ReconcileLoop(ins) ==
    \E r \in {processItems(items, 1, ins,
                 [pvcs |-> pvcs, decision |-> NoDecisions, crashed |-> FALSE])} :
        /\ pvcs' = r.pvcs
        /\ decision' = r.decision
        /\ crashed' = r.crashed
        /\ returned' = IF r.crashed THEN "panic" ELSE "nil"
        /\ cycleLog' = <<"fetched annotated pvcs", "fetched pvc metrics">>
        /\ resizeIssued' =
               [c \in AllPVCs |->
                   resizeIssued[c]
                   \/ (r.decision[c].updateCalled /\ ~r.decision[c].updateErr)]
        /\ pvcl' = pvcs
        /\ answers' = [c \in AllPVCs |-> IF c \in DOMAIN ins THEN ins[c]
                                         ELSE NoAnswers[c]]
        /\ UNCHANGED items

Reconcile ==
    /\ ~crashed
    /\ \/ ReconcileListError
       \/ ReconcileFetchError
       \/ \E ins \in CycleInputs : ReconcileLoop(ins)

\* The storage system honours the request: the allocated capacity becomes
\* the requested one.
StatusUpdate(c) ==
    /\ c \in Range(items)
    /\ ~pvcs[c].requestsNil
    /\ pvcs[c].request <= MaxGiB * GiB
    /\ ~pvcs[c].capacity.exists \/ pvcs[c].capacity.value < pvcs[c].request
    /\ pvcs' = [pvcs EXCEPT ![c].capacity = Capacity(pvcs[c].request)]
    /\ UNCHANGED <<items, decision, returned, cycleLog, crashed, resizeIssued,
                   pvcl, answers>>

----------------------------------------------------------------------------
\* The claims the cycles start from

Annotated ==
    [hasStorageClassName : {TRUE},
     annotationsNil : {FALSE},
     requestsNil : {FALSE},
     threshold : {Absent, Pct(50), Malformed},
     increase : {Absent, Pct(100), Qty(GiB \div 2), Malformed},
     ceiling : {Absent, Qty(GiB + GiB \div 2), Qty(3 * GiB), Malformed},
     previous_capacity : {NoString, Str(FormatInt(GiB)), Str(<<"x">>)},
     capacity : {NoCapacity, Capacity(0), Capacity(GiB)},
     request : {GiB, 3 * GiB}]

\* A claim object with a nil pointer or a nil map: no storage class name,
\* no annotations map, no resource requests map
Incomplete ==
    {[Unlisted EXCEPT !.hasStorageClassName = FALSE],
     [Unlisted EXCEPT !.annotationsNil = TRUE, !.capacity = Capacity(GiB)],
     [Unlisted EXCEPT !.requestsNil = TRUE, !.capacity = Capacity(GiB)]}

\* A listed claim
InitialPVCs == Annotated \cup Incomplete

Init ==
    /\ items = <<"p1">>
    /\ \E f \in [Range(items) -> InitialPVCs] :
           pvcs = [c \in AllPVCs |-> IF c \in DOMAIN f THEN f[c] ELSE Unlisted]
    /\ decision = NoDecisions
    /\ returned = "nil"
    /\ cycleLog = <<>>
    /\ crashed = FALSE
    /\ resizeIssued = [c \in AllPVCs |-> FALSE]
    /\ pvcl = pvcs
    /\ answers = NoAnswers

Next ==
    \/ Reconcile
    \/ \E c \in AllPVCs : StatusUpdate(c)

Spec == Init /\ [][Next]_vars

----------------------------------------------------------------------------
\* Two listed claims, in either order

Good == [Unlisted EXCEPT !.capacity = Capacity(GiB)]

PairPVCs ==
    {Good,
     [Good EXCEPT !.threshold = Malformed],
     [Good EXCEPT !.hasStorageClassName = FALSE]}

\* The answers for one claim: a failed storage class lookup, no metrics
\* entry, or metrics that report the allocated capacity as fully used, with
\* an Update call that fails or succeeds.
PairClaimInputs(pvc) ==
    {Answers([err |-> TRUE, isExpandable |-> FALSE], FALSE, NoMetrics, FALSE),
     Answers([err |-> FALSE, isExpandable |-> TRUE], TRUE, NoMetrics, FALSE)}
    \cup {Answers([err |-> FALSE, isExpandable |-> TRUE], TRUE,
                  [found |-> TRUE, VolumeCapacityBytes |-> pvc.capacity.value,
                   VolumeUsedBytes |-> pvc.capacity.value], e) : e \in BOOLEAN}

PairCycleInputs ==
    {ins \in [Range(items) -> UNION {PairClaimInputs(pvcs[c]) : c \in Range(items)}] :
        \A c \in Range(items) : ins[c] \in PairClaimInputs(pvcs[c])}

ReconcilePair ==
    /\ ~crashed
    /\ \/ ReconcileListError
       \/ ReconcileFetchError
       \/ \E ins \in PairCycleInputs : ReconcileLoop(ins)

InitPair ==
    /\ items \in {<<"p1", "p2">>, <<"p2", "p1">>}
    /\ pvcs \in [AllPVCs -> PairPVCs]
    /\ decision = NoDecisions
    /\ returned = "nil"
    /\ cycleLog = <<>>
    /\ crashed = FALSE
    /\ resizeIssued = [c \in AllPVCs |-> FALSE]
    /\ pvcl = pvcs
    /\ answers = NoAnswers

NextPair ==
    \/ ReconcilePair
    \/ \E c \in AllPVCs : StatusUpdate(c)

SpecPair == InitPair /\ [][NextPair]_vars

----------------------------------------------------------------------------
\* Cycles that keep running on a claim that was never resized before, with a
\* storage system that applies every request and metrics that catch up

Fresh ==
    [hasStorageClassName : {TRUE},
     annotationsNil : {FALSE},
     requestsNil : {FALSE},
     threshold : {Absent, Pct(50)},
     increase : {Absent, Qty(GiB \div 2)},
     ceiling : {Absent, Qty(3 * GiB)},
     previous_capacity : {NoString},
     capacity : {Capacity(GiB)},
     request : {GiB}]

\* The answers of a cycle in which nothing fails, the metrics report the
\* allocated capacity and the volume is full
CaughtUp(pvc) ==
    Answers([err |-> FALSE, isExpandable |-> TRUE], TRUE,
            [found |-> TRUE, VolumeCapacityBytes |-> pvc.capacity.value,
             VolumeUsedBytes |-> pvc.capacity.value], FALSE)

ReconcileCaughtUp ==
    /\ ~crashed
    /\ \E ins \in {[c \in Range(items) |-> CaughtUp(pvcs[c])]} : ReconcileLoop(ins)

\* The answers of a cycle for a full volume: the metrics report one GiB,
\* the allocated capacity or the requested one, and the Update call fails
\* or succeeds
LiveClaimInputs(pvc) ==
    {Answers([err |-> FALSE, isExpandable |-> TRUE], TRUE,
             [found |-> TRUE, VolumeCapacityBytes |-> m, VolumeUsedBytes |-> m], e) :
        m \in ReportedCapacities(pvc), e \in BOOLEAN}

ReconcileLive ==
    /\ ~crashed
    /\ \E ins \in [Range(items) -> UNION {LiveClaimInputs(pvcs[c]) : c \in Range(items)}] :
          /\ \A c \in Range(items) : ins[c] \in LiveClaimInputs(pvcs[c])
          /\ ReconcileLoop(ins)

NextLive ==
    \/ ReconcileLive
    \/ \E c \in AllPVCs : StatusUpdate(c)

InitLive ==
    /\ items = <<"p1">>
    /\ \E f \in [Range(items) -> Fresh] :
           pvcs = [c \in AllPVCs |-> IF c \in DOMAIN f THEN f[c] ELSE Unlisted]
    /\ decision = NoDecisions
    /\ returned = "nil"
    /\ cycleLog = <<>>
    /\ crashed = FALSE
    /\ resizeIssued = [c \in AllPVCs |-> FALSE]
    /\ pvcl = pvcs
    /\ answers = NoAnswers

SpecLive ==
    /\ InitLive
    /\ [][NextLive]_vars
    /\ WF_vars(ReconcileCaughtUp)
    /\ \A c \in AllPVCs : WF_vars(StatusUpdate(c))

----------------------------------------------------------------------------
\* Properties

Listed == Range(items)

Last(seq) == seq[Len(seq)]

\* The previous_capacity annotation the claim had when the cycle listed it
MarkerBefore(d) == ParseInt(d.pvc.previous_capacity.s)

MarkerEqualsMetrics(d) ==
    /\ d.in.metrics.found
    /\ d.pvc.previous_capacity.exists
    /\ ~MarkerBefore(d).err
    /\ MarkerBefore(d).value = d.in.metrics.VolumeCapacityBytes

\* The ceiling annotation is a valid quantity
CeilingConfigured(d) == d.pvc.ceiling.kind = "qty" /\ d.pvc.ceiling.n > 0

\* C1 (oscillation guard): in every cycle in which the claim's
\* previous_capacity annotation is present and parses to the capacity the
\* metrics report, reconcile calls no update for the claim and leaves it as
\* it was, whatever the used bytes are.  As this holds of every cycle of
\* every run, it holds of each of a sequence of consecutive cycles for as
\* long as the reported capacity stays equal to the marker.
C1_OscillationGuard ==
    \A c \in Listed :
        LET d == decision[c]
        IN  d.processed /\ MarkerEqualsMetrics(d)
                => /\ ~d.updateCalled
                   /\ pvcs[c].previous_capacity = d.pvc.previous_capacity
                   /\ pvcs[c].request = d.pvc.request

\* C1 witness: after a resize issued by reconcile, a cycle is stopped by the
\* guard although the used bytes reach the threshold.
C1_Witness ==
    \E c \in Listed :
        LET d == decision[c]
        IN  /\ d.processed /\ MarkerEqualsMetrics(d)
            /\ resizeIssued[c]
            /\ Last(d.log) = "pvc is still waiting to accept the resize"
            /\ d.in.metrics.VolumeUsedBytes >= d.threshold

\* C2 (no double resize), as claimed: a cycle that starts while a resize
\* issued by reconcile is still propagating (the allocated capacity is below
\* the requested one) calls no update for the claim.
C2_NoDoubleResize ==
    \A c \in Listed : decision[c].pendingBefore => ~decision[c].updateCalled

\* C3 (monotonic growth): every update writes a target strictly greater
\* than the allocated capacity it was computed from.
C3_MonotonicGrowth ==
    \A c \in Listed :
        LET d == decision[c]
        IN  d.updateCalled
                => /\ d.pvc.capacity.exists
                   /\ d.newStorage > d.pvc.capacity.value

\* C3 witness: an update whose target is the ceiling, one step above the
\* allocated capacity.
C3_Witness ==
    \E c \in Listed :
        LET d == decision[c]
        IN  /\ d.updateCalled
            /\ CeilingConfigured(d)
            /\ d.newStorage = d.pvc.ceiling.n
            /\ d.newStorage < d.newStorageBytes
            /\ d.newStorage > d.pvc.capacity.value

\* C4 (never shrink), as claimed: every update writes a request that is not
\* smaller than the request the claim had before the write.
C4_NeverShrink ==
    \A c \in Listed :
        decision[c].updateCalled => decision[c].newStorage >= decision[c].pvc.request

\* C5 (ceiling respected): every update for a claim with a ceiling writes a
\* target that is at most the ceiling, and exactly the ceiling when the
\* GiB-rounded target exceeds it; a request written by reconcile is never
\* above the ceiling.
C5_CeilingRespected ==
    \A c \in Listed :
        LET d == decision[c]
        IN  /\ d.updateCalled /\ CeilingConfigured(d)
                => /\ d.newStorage <= d.pvc.ceiling.n
                   /\ (d.newStorageBytes > d.pvc.ceiling.n
                          => d.newStorage = d.pvc.ceiling.n)
            /\ resizeIssued[c] /\ pvcs[c].ceiling.kind = "qty"
                => pvcs[c].request <= pvcs[c].ceiling.n

\* C5 witness: a successful update whose rounded target was above the
\* ceiling.
C5_Witness ==
    \E c \in Listed :
        LET d == decision[c]
        IN  /\ d.updateCalled /\ ~d.updateErr /\ CeilingConfigured(d)
            /\ d.newStorageBytes > d.pvc.ceiling.n
            /\ pvcs[c].request = d.pvc.ceiling.n

\* C6 (at ceiling): a claim whose allocated capacity is at or above its
\* ceiling gets no update, also when its used bytes reach the threshold.
C6_AtCeiling ==
    \A c \in Listed :
        LET d == decision[c]
        IN  (/\ d.processed /\ CeilingConfigured(d)
             /\ d.pvc.capacity.exists
             /\ d.pvc.capacity.value >= d.pvc.ceiling.n)
                => ~d.updateCalled

\* C6 witness: the limit check stops a claim whose used bytes reach the
\* threshold and whose capacity equals the ceiling.
C6_Witness ==
    \E c \in Listed :
        LET d == decision[c]
        IN  /\ d.processed /\ CeilingConfigured(d)
            /\ d.pvc.capacity.value = d.pvc.ceiling.n
            /\ Last(d.log) = "volume storage limit reached"
            /\ d.in.metrics.VolumeUsedBytes >= d.threshold

\* A claim that names a storage class which does not allow expansion
NonExpandable(d) ==
    /\ d.processed /\ d.pvc.hasStorageClassName
    /\ ~d.in.storageClass.err /\ ~d.in.storageClass.isExpandable

\* C7 (non-expandable storage class): the claim is skipped right after the
\* storage class lookup: no update, an error line for the storage class,
\* and no metrics lookup, policy conversion or growth computation.
C7_NonExpandableSkipped ==
    \A c \in Listed :
        LET d == decision[c]
        IN  NonExpandable(d)
                => /\ ~d.updateCalled
                   /\ d.evaluated = <<"isStorageClassExpandable">>
                   /\ Last(d.log) = "the StorageClass does not allow volume expansion"
                   /\ pvcs[c].request = d.pvc.request

\* C7 witness: a claim of a non-expandable class was processed and skipped.
C7_Witness ==
    \E c \in Listed :
        /\ NonExpandable(decision[c])
        /\ Len(decision[c].log) = 2

\* The cycle compared the used bytes with the threshold and they were below
BelowThreshold(d) ==
    /\ d.processed
    /\ \E i \in 1..Len(d.evaluated) : d.evaluated[i] = "currentUsedBytes >= threshold"
    /\ d.currentUsedBytes < d.threshold

\* C8 (threshold gating), as claimed: a claim whose used bytes are below
\* the threshold gets no update and the skip is logged with the reason
\* "below threshold".
C8_BelowThresholdReported ==
    \A c \in Listed :
        BelowThreshold(decision[c])
            => /\ ~decision[c].updateCalled
               /\ Last(decision[c].log) = "below threshold"

\* C9 (rounding): the target before the clamp is a multiple of 1 GiB and
\* the smallest one that is at least capacity + increase.
C9_RoundingCorrect ==
    \A c \in Listed :
        LET d == decision[c]
            raw == d.pvc.capacity.value + d.increase
        IN  d.updateCalled
                => /\ d.newStorageBytes % GiB = 0
                   /\ d.newStorageBytes >= raw
                   /\ d.newStorageBytes - GiB < raw

\* C9 witness: an update whose raw target was not GiB-aligned and was
\* rounded up.
C9_Witness ==
    \E c \in Listed :
        LET d == decision[c]
        IN  /\ d.updateCalled
            /\ (d.pvc.capacity.value + d.increase) % GiB # 0
            /\ d.newStorageBytes > d.pvc.capacity.value + d.increase

\* C10 (marker value): the previous_capacity written by an update is the
\* decimal form of the capacity the metrics reported in that cycle, not of
\* the target; a successful update leaves exactly that marker on the claim.
C10_MarkerIsObservedCapacity ==
    \A c \in Listed :
        LET d == decision[c]
            written == ParseInt(d.marker.s)
        IN  d.updateCalled
                => /\ d.marker.exists /\ ~written.err
                   /\ written.value = d.in.metrics.VolumeCapacityBytes
                   /\ (d.newStorage # d.in.metrics.VolumeCapacityBytes
                          => written.value # d.newStorage)
                   /\ (~d.updateErr => pvcs[c].previous_capacity = d.marker)

\* C10 witness: a successful update left a marker that differs from the
\* target it wrote.
C10_Witness ==
    \E c \in Listed :
        LET d == decision[c]
        IN  /\ d.updateCalled /\ ~d.updateErr
            /\ pvcs[c].previous_capacity = d.marker
            /\ pvcs[c].request = d.newStorage
            /\ ParseInt(d.marker.s).value # d.newStorage

\* The last call failed to fetch the metrics (lines 24-28)
MetricsFetchFailed ==
    /\ cycleLog # <<>>
    /\ Last(cycleLog) = "could not fetch the PersistentVolumeClaims metrics"

\* C11 (cycle-fatal error), as claimed: when the metrics fetch fails, no
\* claim is processed and reconcile returns an error to its caller.
C11_FetchFailureSurfaced ==
    MetricsFetchFailed
        => /\ \A c \in Listed : ~decision[c].processed
           /\ returned = "error"

\* C13 (no crash on a bad claim), as claimed: whatever the listed claims
\* are, a reconcile call ends without a panic.
C13_NoCrash == ~crashed /\ returned # "panic"

\* The last call ran the loop over the claims (lines 29-162)
LoopRan == cycleLog # <<>> /\ Last(cycleLog) = "fetched pvc metrics"

\* What the loop does for claim c when c is the only claim listed, from the
\* objects and answers of the last call
Alone(c) ==
    processItems(<<c>>, 1, answers,
                 [pvcs |-> pvcl, decision |-> NoDecisions, crashed |-> FALSE])

\* The claim's processing ended in a per-claim error
PerClaimError(d) ==
    /\ d.processed /\ ~d.panicked
    /\ Last(d.log) \in {"failed getting StorageClass",
                        "could not fetch the metrics for pvc",
                        "failed to convert threshold annotation"}
       \/ (d.updateCalled /\ d.updateErr)

\* C12 (failure isolation and independence): in a cycle in which no other
\* claim makes the process panic, each listed claim gets exactly the
\* decision, and the object, it gets when it is the only claim listed,
\* whatever the other claim's error is and in whichever order the two are
\* listed.
C12_FailureIsolation ==
    LoopRan =>
        \A c \in Listed :
            (\A o \in Listed \ {c} : ~decision[o].panicked)
                => /\ decision[c] =
                          [Alone(c).decision[c]
                              EXCEPT !.pendingBefore = decision[c].pendingBefore]
                   /\ [pvcs[c] EXCEPT !.capacity = pvcl[c].capacity]
                          = Alone(c).pvcs[c]

\* C12 witness: the claim listed first ended in a per-claim error and the
\* claim listed after it was resized.
C12_Witness ==
    /\ LoopRan /\ Len(items) = 2
    /\ PerClaimError(decision[items[1]])
    /\ decision[items[2]].updateCalled /\ ~decision[items[2]].updateErr
    /\ pvcs[items[2]].request = decision[items[2]].newStorage

\* The number of Update calls made for a claim in its last cycle
UpdateCalls(d) ==
    Cardinality({i \in 1..Len(d.evaluated) : d.evaluated[i] = "Update"})

\* C14 (no retry within a cycle): a cycle makes at most one Update call for
\* a claim, and when that call returned an error the stored claim keeps
\* the request and the previous_capacity annotation it was listed with;
\* the decision of a cycle is made from the claim as that cycle listed it.
C14_NoRetry ==
    \A c \in Listed :
        /\ (LoopRan /\ decision[c].processed) => decision[c].pvc = pvcl[c]
        /\ UpdateCalls(decision[c]) <= 1
        /\ decision[c].updateCalled <=> UpdateCalls(decision[c]) = 1
        /\ (decision[c].updateCalled /\ decision[c].updateErr)
              => /\ pvcs[c].request = decision[c].pvc.request
                 /\ pvcs[c].previous_capacity = decision[c].pvc.previous_capacity

\* C14 witness: the Update call of the last cycle failed, for a claim that
\* the loop wanted to grow beyond the request it was listed with.
C14_Witness ==
    \E c \in Listed :
        /\ decision[c].updateCalled /\ decision[c].updateErr
        /\ UpdateCalls(decision[c]) = 1
        /\ decision[c].newStorage > decision[c].pvc.request
        /\ pvcs[c].request = decision[c].pvc.request

\* The fields of a claim object that no Update of reconcile may change,
\* with the status capacity, which the storage system sets, left out
PolicyOf(pvc) ==
    [hasStorageClassName |-> pvc.hasStorageClassName,
     annotationsNil |-> pvc.annotationsNil,
     requestsNil |-> pvc.requestsNil,
     threshold |-> pvc.threshold,
     increase |-> pvc.increase,
     ceiling |-> pvc.ceiling]

\* C15 (write frame): the stored claim differs from the claim the last
\* cycle listed in nothing but the requested storage and the
\* previous_capacity annotation, so the threshold, increase and ceiling
\* annotations are as listed; and a claim for which the cycle made no
\* Update call has its request and previous_capacity as listed too.
C15_WriteFrame ==
    \A c \in Listed :
        /\ PolicyOf(pvcs[c]) = PolicyOf(pvcl[c])
        /\ (LoopRan /\ ~decision[c].updateCalled)
              => /\ pvcs[c].request = pvcl[c].request
                 /\ pvcs[c].previous_capacity = pvcl[c].previous_capacity

\* C15 witness: an Update of a claim with its own threshold and increase
\* annotations was stored: request and previous_capacity were changed.
C15_Witness ==
    \E c \in Listed :
        /\ LoopRan
        /\ decision[c].updateCalled /\ ~decision[c].updateErr
        /\ pvcl[c].threshold = Pct(50) /\ pvcl[c].increase = Qty(GiB \div 2)
        /\ pvcs[c].request # pvcl[c].request
        /\ pvcs[c].previous_capacity # pvcl[c].previous_capacity

\* The stage of the decision pipeline a step of the loop body belongs to:
\* 1 policy parse, 2 eligibility, 3 oscillation guard, 4 growth
StageOf(step) ==
    CASE step \in {"convertPercentageToBytes(threshold)",
                   "convertPercentageToBytes(increase)",
                   "getPVCStorageCeiling"} -> 1
      [] step \in {"isStorageClassExpandable", "isPVCResizable",
                   "pvcsMetrics[namespacedName]", "Status.Capacity"} -> 2
      [] step = "previous_capacity" -> 3
      [] OTHER -> 4

\* C16 (stage order), as claimed: the steps of a claim's cycle come in the
\* order policy parse, eligibility, oscillation guard, growth, and a claim
\* with a malformed threshold, increase or ceiling annotation is rejected by
\* a parse step before any eligibility step is evaluated.
C16_StageOrder ==
    \A c \in Listed :
        LET d == decision[c]
        IN  (d.processed /\ ~d.panicked)
               => /\ \A i, j \in 1..Len(d.evaluated) :
                        i < j => StageOf(d.evaluated[i]) <= StageOf(d.evaluated[j])
                  /\ Malformed \in {d.pvc.threshold, d.pvc.increase, d.pvc.ceiling}
                        => /\ StageOf(d.evaluated[1]) = 1
                           /\ Last(d.log) \in {"failed to convert threshold annotation",
                                               "failed to convert increase annotation",
                                               "failed to fetch storage ceiling"}

\* The claim the cycle listed passes every gate of the loop body and its
\* used bytes have reached the threshold
Due(d) ==
    LET pvc == d.pvc
        metrics == d.in.metrics
        threshold == convertPercentageToBytes(pvc.threshold, metrics.VolumeCapacityBytes,
                                              DefaultThreshold)
        increase == convertPercentageToBytes(pvc.increase, pvc.capacity.value,
                                             DefaultIncrease)
        marker == ParseInt(pvc.previous_capacity.s)
        ceiling == getPVCStorageCeiling(pvc)
    IN  /\ d.processed
        /\ pvc.hasStorageClassName
        /\ ~d.in.storageClass.err /\ d.in.storageClass.isExpandable
        /\ d.in.resizable
        /\ metrics.found
        /\ ~threshold.err /\ ~increase.err /\ ~ceiling.err
        /\ pvc.capacity.exists /\ pvc.capacity.value > 0
        /\ ~pvc.previous_capacity.exists
              \/ (~marker.err /\ marker.value # metrics.VolumeCapacityBytes)
        /\ Cmp(pvc.capacity.value, ceiling.ceiling) < 0
        /\ metrics.VolumeUsedBytes >= threshold.bytes

\* min(ceiling, GiB-round-up(currentCapacity + increase)) for the claim the
\* cycle listed
Target(d) ==
    LET raw == CeilGiB(d.pvc.capacity.value
                       + convertPercentageToBytes(d.pvc.increase, d.pvc.capacity.value,
                                                  DefaultIncrease).bytes) * GiB
        ceiling == getPVCStorageCeiling(d.pvc).ceiling
    IN  IF ~ceiling.unbounded /\ ceiling.value < raw THEN ceiling.value ELSE raw

ScenarioA ==
    /\ UsageBiggerThanThreshold(9 * GiB,
           convertPercentageToBytes(Pct(80), 10 * GiB, DefaultThreshold).bytes)
    /\ ClampToCeiling(NewStorageBytes(10 * GiB,
                          convertPercentageToBytes(Pct(20), 10 * GiB, DefaultIncrease).bytes),
                      NoCeiling) = 12 * GiB

\* C17 for the claims whose annotations and requests maps exist
ResizeIssuedWithMaps ==
    /\ ScenarioA
    /\ \A c \in Listed :
          (Due(decision[c]) /\ ~decision[c].pvc.annotationsNil
                            /\ ~decision[c].pvc.requestsNil)
              => /\ UpdateCalls(decision[c]) = 1
                 /\ decision[c].updateCalled
                 /\ decision[c].newStorage = Target(decision[c])

\* A claim with both maps was due with its used bytes equal to the threshold
DueAtThreshold ==
    \E c \in Listed :
        /\ Due(decision[c]) /\ ~decision[c].pvc.annotationsNil /\ ~decision[c].pvc.requestsNil
        /\ decision[c].currentUsedBytes = decision[c].threshold
        /\ decision[c].updateCalled

\* The last cycle stopped at the oscillation guard for a claim whose
\* request the storage system can apply and is below the ceiling
GatedBelowCeiling(c) ==
    /\ c \in Listed
    /\ decision[c].processed
    /\ Last(decision[c].log) = "pvc is still waiting to accept the resize"
    /\ pvcs[c].request <= MaxGiB * GiB
    /\ Cmp(pvcs[c].request, getPVCStorageCeiling(pvcs[c]).ceiling) < 0

\* The last cycle issued a resize for the claim
Issued(c) == decision[c].updateCalled /\ ~decision[c].updateErr

\* C18 (gating ends when metrics catch up), as claimed: when cycles keep
\* running, every request is eventually applied and the metrics eventually
\* report the allocated capacity of a full volume, a claim that the
\* oscillation guard gates below its ceiling eventually gets a further
\* resize issued.
C18_GatingEnds ==
    \A c \in AllPVCs : GatedBelowCeiling(c) ~> Issued(c)

\* The previous_capacity annotation is no decimal integer
MalformedMarker(pvc) ==
    /\ pvc.previous_capacity.exists
    /\ \/ pvc.previous_capacity.s = <<>>
       \/ \E i \in 1..Len(pvc.previous_capacity.s) :
             /\ ~IsDigit(pvc.previous_capacity.s[i])
             /\ ~(i = 1 /\ pvc.previous_capacity.s[i] \in {"+", "-"})

\* The parse failures the loop can report, by annotation
ParseFailure(pvc) ==
    (IF pvc.threshold = Malformed
        THEN {"failed to convert threshold annotation"} ELSE {})
    \cup (IF pvc.increase = Malformed
             THEN {"failed to convert increase annotation"} ELSE {})
    \cup (IF pvc.ceiling = Malformed
             THEN {"failed to fetch storage ceiling"} ELSE {})
    \cup (IF MalformedMarker(pvc)
             THEN {"failed to parse 'previous_capacity' annotation"} ELSE {})

\* C19 (fail-safe parsing): a cycle makes no Update call for a claim whose
\* threshold, increase, ceiling or previous_capacity annotation does not
\* parse, and leaves its request and marker as listed; a cycle that gets
\* past every eligibility check and the oscillation guard ends at the
\* report of one of the claim's parse failures, with no value computed
\* after it.
C19_FailSafeParsing ==
    \A c \in Listed :
        LET d == decision[c]
        IN  (d.processed /\ ParseFailure(d.pvc) # {})
               => /\ ~d.updateCalled
                  /\ UpdateCalls(d) = 0
                  /\ d.newStorageBytes = 0
                  /\ LoopRan => /\ pvcs[c].request = pvcl[c].request
                                /\ pvcs[c].previous_capacity = pvcl[c].previous_capacity
                  /\ Last(d.log) \in
                        ParseFailure(d.pvc)
                        \cup {"failed getting StorageClass",
                              "the StorageClass does not allow volume expansion",
                              "the PersistentVolumeClaim %s is not resizable: %v",
                              "could not fetch the metrics for pvc",
                              "skip pvc because its capacity is not set yet",
                              "skip pvc because its capacity is zero",
                              "pvc is still waiting to accept the resize",
                              "processing pvc"}

\* C19 witness: a full, eligible claim whose only fault is a
\* previous_capacity annotation that does not parse was skipped at the
\* report of that parse failure.
C19_Witness ==
    \E c \in Listed :
        LET d == decision[c]
        IN  /\ d.processed
            /\ ParseFailure(d.pvc) = {"failed to parse 'previous_capacity' annotation"}
            /\ Last(d.log) = "failed to parse 'previous_capacity' annotation"
            /\ d.in.metrics.VolumeUsedBytes >= d.threshold
            /\ d.in.metrics.VolumeUsedBytes > 0
            /\ ~d.updateCalled

\* C20 (truthful resize report), as claimed: a cycle logs "pvc resized" for
\* a claim only if its Update call for the claim returned no error; a
\* failed Update is reported as "failed to resize pvc" and not as a resize.
C20_TruthfulReport ==
    \A c \in Listed :
        LET d == decision[c]
        IN  /\ (\E i \in 1..Len(d.log) : d.log[i] = "pvc resized")
                  => (d.updateCalled /\ ~d.updateErr)
            /\ (d.updateCalled /\ d.updateErr)
                  => \E i \in 1..Len(d.log) : d.log[i] = "failed to resize pvc"

====
